---------------------------- MODULE Spec2Model ----------------------------
(***************************************************************************)
(* The K-Means clustering engine of the Data Lab page, runKMeans in        *)
(* src/pages/UnsupervisedLearning.tsx, as a state machine.                 *)
(*                                                                         *)
(* One behaviour of Spec is one call of runKMeans.  The initial state      *)
(* holds the arguments of the call; every later step is one draw of the    *)
(* sampling loop, one assignment pass, one update pass, or the return.     *)
(* SpecHistory is one call of runKMeansWithHistory, SpecPair two calls of  *)
(* runKMeans over the same rows with their steps interleaved.  SpecFair is *)
(* Spec with the fairness of sequential execution.  SpecDataLab and        *)
(* SpecLive are the two components that call these functions from deferred *)
(* callbacks, DataLab and LiveKMeansExample.                               *)
(*                                                                         *)
(* Coordinates are exact rationals: a point is a pair of integers, a       *)
(* centroid is a record [x, y, d] standing for (x/d, y/d) in lowest terms  *)
(* with d >= 1.  Math.sqrt is strictly increasing, so two distances are    *)
(* compared through their squares.  Rounding of IEEE doubles is not        *)
(* modelled.  Cluster indices are 0-based as in the source; sequences are  *)
(* 1-based, so cluster j is centroids[j + 1].                              *)
(***************************************************************************)
EXTENDS Integers, Sequences, FiniteSets, TLC

\* ------------------------------------------------------------------ bounds
MaxN == 3
MaxCoord == 1
MaxK == 3
MaxIter == 1
DefaultMaxIterations == 50

\* ------------------------------------------------------------------ inputs
Grid == (0..MaxCoord) \X {0, 3}

ScenarioPoints == << <<0, 0>>, <<0, 1>>, <<10, 0>>, <<10, 1>> >>

\* three rows on which a sample of rows 0 and 2 needs a third pass to settle
SlowPoints == << <<0, 0>>, <<0, 3>>, <<1, 0>> >>

PointLists == UNION {[1..n -> Grid] : n \in 0..MaxN} \cup {ScenarioPoints}

KValues == (-1)..MaxK

MaxIterationsValues == (0..MaxIter) \cup {DefaultMaxIterations}

\* ------------------------------------------------------------- arithmetic
Abs(i) == IF i < 0 THEN -i ELSE i

Min(a, b) == IF a < b THEN a ELSE b

RECURSIVE GCD(_, _)
GCD(a, b) == IF b = 0 THEN a ELSE GCD(b, a % b)

\* the rational pair (sx/c, sy/c), c >= 1, in lowest terms
Rat(sx, sy, c) ==
    LET g == GCD(GCD(Abs(sx), Abs(sy)), c)
    IN  [x |-> sx \div g, y |-> sy \div g, d |-> c \div g]

\* the centroid copied from a data row: { x: data[i][xCol], y: data[i][yCol] }
CentroidOf(p) == [x |-> p[1], y |-> p[2], d |-> 1]

Origin == [x |-> 0, y |-> 0, d |-> 1]

\* variant: the y term of the distance computed from the x column again
DistNum_CopyPasteX(p, c) ==
    (p[1] * c.d - c.x) * (p[1] * c.d - c.x) + (p[1] * c.d - c.x) * (p[1] * c.d - c.x)

\* numerator of the squared distance from point p to centroid c, over c.d^2
DistNum(p, c) ==
    (p[1] * c.d - c.x) * (p[1] * c.d - c.x) + (p[2] * c.d - c.y) * (p[2] * c.d - c.y)

\* distance(p, c1) < distance(p, c2)
DistLess(p, c1, c2) == DistNum(p, c1) * c2.d * c2.d < DistNum(p, c2) * c1.d * c1.d

\* ------------------------------------------------------------------ state
VARIABLES
    data,           \* the rows passed in, as (x, y) feature pairs
    k,              \* requested cluster count
    maxIterations,  \* iteration cap
    pc,             \* position in runKMeans
    centroids,      \* let centroids
    usedIndices,    \* const usedIndices (0-based row indices)
    assignments,    \* let assignments
    changed,        \* let changed
    iter,           \* loop counter
    nAssign,        \* assignment passes executed so far
    nUpdate,        \* update passes executed so far
    prevAssign,     \* assignment vector before the last assignment pass
    measured,       \* centroid list the last assignment pass measured against
    history,        \* const history of runKMeansWithHistory
    calls,          \* the local state of two calls running side by side
    lab,            \* the useState cells of the DataLab component
    live            \* the useState cells of the LiveKMeansExample component

vars == <<data, k, maxIterations, pc, centroids, usedIndices, assignments,
          changed, iter, nAssign, nUpdate, prevAssign, measured, history, calls,
          lab, live>>

N == Len(data)

\* lab and live when the component is not on the page
NoComponent == [mounted |-> FALSE]

\* ------------------------------------------------------------ initialization
Init ==
    /\ data \in PointLists
    /\ k \in KValues
    /\ maxIterations \in MaxIterationsValues
    /\ pc = "sampling"
    /\ centroids = << >>
    /\ usedIndices = {}
    /\ assignments = << >>
    /\ changed = FALSE
    /\ iter = 0
    /\ nAssign = 0
    /\ nUpdate = 0
    /\ prevAssign = << >>
    /\ measured = << >>
    /\ history = << >>
    /\ calls = << >>
    /\ lab = NoComponent
    /\ live = NoComponent

\* variant: the loop condition without the data.length cap
SamplingGuard_NoDataCap == Len(centroids) < k

\* while (centroids.length < k && centroids.length < data.length)
SamplingGuard == Len(centroids) < k /\ Len(centroids) < N

\* variant: the drawn row is pushed without consulting usedIndices
Sample_WithReplacement ==
    /\ pc = "sampling"
    /\ UNCHANGED <<history, calls, lab, live>>
    /\ SamplingGuard
    /\ \E idx \in 0..(N - 1) :
          /\ centroids' = Append(centroids, CentroidOf(data[idx + 1]))
          /\ usedIndices' = usedIndices \cup {idx}
    /\ UNCHANGED <<data, k, maxIterations, pc, assignments, changed, iter,
                   nAssign, nUpdate, prevAssign, measured>>

\* variant: the drawn row is taken out of data (data.splice(randomIndex, 1))
Sample_Splice ==
    /\ pc = "sampling"
    /\ UNCHANGED <<history, calls, lab, live>>
    /\ SamplingGuard
    /\ \E idx \in 0..(N - 1) :
          /\ centroids' = Append(centroids, CentroidOf(data[idx + 1]))
          /\ usedIndices' = usedIndices \cup {idx}
          /\ data' = SubSeq(data, 1, idx) \o SubSeq(data, idx + 2, N)
    /\ UNCHANGED <<k, maxIterations, pc, assignments, changed, iter,
                   nAssign, nUpdate, prevAssign, measured>>

\* one turn of the sampling loop with Math.floor(Math.random() * data.length) = idx
Sample ==
    /\ pc = "sampling"
    /\ UNCHANGED <<history, calls, lab, live>>
    /\ SamplingGuard
    /\ \E idx \in 0..(N - 1) :
          IF idx \notin usedIndices
            THEN /\ centroids' = Append(centroids, CentroidOf(data[idx + 1]))
                 /\ usedIndices' = usedIndices \cup {idx}
            ELSE UNCHANGED <<centroids, usedIndices>>
    /\ UNCHANGED <<data, k, maxIterations, pc, assignments, changed, iter,
                   nAssign, nUpdate, prevAssign, measured>>

\* variant: the assignment vector sized by k (new Array(k).fill(0))
FinishInit_LengthK ==
    /\ pc = "sampling"
    /\ UNCHANGED <<history, calls, lab, live>>
    /\ ~SamplingGuard
    /\ assignments' = [i \in 1..(IF k > 0 THEN k ELSE 0) |-> 0]
    /\ changed' = TRUE
    /\ iter' = 0
    /\ pc' = "loop"
    /\ UNCHANGED <<data, k, maxIterations, centroids, usedIndices,
                   nAssign, nUpdate, prevAssign, measured>>

\* the sampling loop ends; assignments = new Array(data.length).fill(0); changed = true
FinishInit ==
    /\ pc = "sampling"
    /\ UNCHANGED <<history, calls, lab, live>>
    /\ ~SamplingGuard
    /\ assignments' = [i \in 1..N |-> 0]
    /\ changed' = TRUE
    /\ iter' = 0
    /\ pc' = "loop"
    /\ UNCHANGED <<data, k, maxIterations, centroids, usedIndices,
                   nAssign, nUpdate, prevAssign, measured>>

\* ---------------------------------------------------------- assignment pass
\* variant: the comparison written as distance <= minDistance (last index wins ties)
Closer_TieLast(p, cs, j, best) == best = -1 \/ ~DistLess(p, cs[best + 1], cs[j + 1])

\* if (distance < minDistance): best = -1 stands for minDistance = Infinity
Closer(p, cs, j, best) == best = -1 \/ DistLess(p, cs[j + 1], cs[best + 1])

\* variant: the scan stops one centroid early
RECURSIVE NearestScan_SkipLast(_, _, _, _)
NearestScan_SkipLast(p, cs, j, best) ==
    IF j >= Len(cs) - 1 THEN best
    ELSE NearestScan_SkipLast(p, cs, j + 1, IF Closer(p, cs, j, best) THEN j ELSE best)

\* centroids.forEach((centroid, clusterIndex) => ...) from clusterIndex j on
RECURSIVE NearestScan(_, _, _, _)
NearestScan(p, cs, j, best) ==
    IF j >= Len(cs) THEN best
    ELSE NearestScan(p, cs, j + 1, IF Closer(p, cs, j, best) THEN j ELSE best)

\* bestCluster for one point: starts at 0 and stays 0 when there is no centroid
BestCluster(p, cs) ==
    LET b == NearestScan(p, cs, 0, -1) IN IF b = -1 THEN 0 ELSE b

\* variant: the loop condition without the changed flag
LoopGuard_IgnoresChanged == iter < maxIterations

\* variant: the loop condition with iter <= maxIterations
LoopGuard_OffByOne == iter <= maxIterations /\ changed

\* for (...; iter < maxIterations && changed; ...)
LoopGuard == iter < maxIterations /\ changed

AssignPass ==
    /\ pc = "loop"
    /\ UNCHANGED <<history, calls, lab, live>>
    /\ LoopGuard
    /\ LET best == [i \in 1..N |-> BestCluster(data[i], centroids)]
       IN  /\ assignments' = best
           /\ changed' = (\E i \in 1..N : assignments[i] # best[i])
    /\ prevAssign' = assignments
    /\ measured' = centroids
    /\ nAssign' = nAssign + 1
    /\ pc' = "update"
    /\ UNCHANGED <<data, k, maxIterations, centroids, usedIndices, iter, nUpdate>>

\* -------------------------------------------------------------- update pass
\* Array.from({ length: k }, ...): ToLength clamps a negative length to 0
NewLength == IF k > 0 THEN k ELSE 0

\* sum of feature f (1 = x, 2 = y) over rows 1..i assigned to cluster j
RECURSIVE SumOf(_, _, _, _)
SumOf(f, j, as, i) ==
    IF i = 0 THEN 0
    ELSE SumOf(f, j, as, i - 1) + (IF as[i] = j THEN data[i][f] ELSE 0)

CountOf(j, as) == Cardinality({i \in 1..Len(as) : as[i] = j})

\* feature f of the last row assigned to cluster j among rows 1..i (0 if none)
RECURSIVE LastOf(_, _, _, _)
LastOf(f, j, as, i) ==
    IF i = 0 THEN 0
    ELSE IF as[i] = j THEN data[i][f] ELSE LastOf(f, j, as, i - 1)

\* variant: the accumulation written = instead of += (the last row over count)
NewCentroid_Overwrite(j, as) ==
    IF CountOf(j, as) > 0
      THEN Rat(LastOf(1, j, as, Len(as)), LastOf(2, j, as, Len(as)), CountOf(j, as))
      ELSE Origin

\* variant: the sums divided by data.length instead of the cluster's count
NewCentroid_DivN(j, as) ==
    IF CountOf(j, as) > 0
      THEN Rat(SumOf(1, j, as, Len(as)), SumOf(2, j, as, Len(as)), Len(as))
      ELSE Origin

\* variant: y computed from the x sum
NewCentroid_CopyPasteX(j, as) ==
    IF CountOf(j, as) > 0
      THEN Rat(SumOf(1, j, as, Len(as)), SumOf(1, j, as, Len(as)), CountOf(j, as))
      ELSE Origin

\* variant: the sums returned without the division
NewCentroid_NoDivide(j, as) ==
    IF CountOf(j, as) > 0
      THEN Rat(SumOf(1, j, as, Len(as)), SumOf(2, j, as, Len(as)), 1)
      ELSE Origin

\* variant: an empty cluster restarts from the first row instead of 0
NewCentroid_ReseedFirst(j, as) ==
    IF CountOf(j, as) > 0
      THEN Rat(SumOf(1, j, as, Len(as)), SumOf(2, j, as, Len(as)), CountOf(j, as))
      ELSE IF N > 0 THEN CentroidOf(data[1]) ELSE Origin

\* newCentroids.map(c => ({ x: c.count > 0 ? c.x / c.count : 0, y: ... }))
NewCentroid(j, as) ==
    IF CountOf(j, as) > 0
      THEN Rat(SumOf(1, j, as, Len(as)), SumOf(2, j, as, Len(as)), CountOf(j, as))
      ELSE Origin

\* newCentroids[clusterIndex].x += ... on an index the array does not have
UpdateThrows == \E i \in 1..N : assignments[i] >= NewLength

UpdatePass ==
    /\ pc = "update"
    /\ UNCHANGED <<history, calls, lab, live>>
    /\ IF UpdateThrows
         THEN /\ pc' = "thrown"
              /\ UNCHANGED <<centroids, iter, nUpdate>>
         ELSE /\ centroids' = [j \in 1..NewLength |-> NewCentroid(j - 1, assignments)]
              /\ iter' = iter + 1
              /\ nUpdate' = nUpdate + 1
              /\ pc' = "loop"
    /\ UNCHANGED <<data, k, maxIterations, usedIndices, assignments, changed,
                   nAssign, prevAssign, measured>>

\* variant: an unchanged assignment pass breaks out of the loop before the update
Return_BreakEarly ==
    /\ \/ pc = "loop" /\ ~LoopGuard
       \/ pc = "update" /\ ~changed
    /\ UNCHANGED <<history, calls, lab, live>>
    /\ pc' = "done"
    /\ UNCHANGED <<data, k, maxIterations, centroids, usedIndices, assignments,
                   changed, iter, nAssign, nUpdate, prevAssign, measured>>

\* return { assignments, centroids }
Return ==
    /\ pc = "loop"
    /\ UNCHANGED <<history, calls, lab, live>>
    /\ ~LoopGuard
    /\ pc' = "done"
    /\ UNCHANGED <<data, k, maxIterations, centroids, usedIndices, assignments,
                   changed, iter, nAssign, nUpdate, prevAssign, measured>>

Next == Sample \/ FinishInit \/ AssignPass \/ UpdatePass \/ Return

Spec == Init /\ [][Next]_vars

\* ------------------------------------------------- runKMeansWithHistory
(***************************************************************************)
(* runKMeansWithHistory in src/components/playground/GalaxyZooExample.tsx: *)
(* the same loop, with a snapshot pushed after initialization and after    *)
(* every update pass, and an empty cluster restarted from drawn rows.      *)
(***************************************************************************)
MaxHistN == 2

HistoryPointLists ==
    {pl \in PointLists : Len(pl) <= MaxHistN} \cup {ScenarioPoints, SlowPoints}

\* One call of runKMeans on the shorter inputs, with fairness.
\* The call is sequential code: a step that can be taken is taken.  A turn of
\* the sampling loop that draws an index already used changes nothing, so weak
\* fairness of Sample says that an unused index is eventually drawn.
FairInit ==
    /\ data \in HistoryPointLists
    /\ k \in KValues
    /\ maxIterations \in MaxIterationsValues
    /\ pc = "sampling"
    /\ centroids = << >>
    /\ usedIndices = {}
    /\ assignments = << >>
    /\ changed = FALSE
    /\ iter = 0
    /\ nAssign = 0
    /\ nUpdate = 0
    /\ prevAssign = << >>
    /\ measured = << >>
    /\ history = << >>
    /\ calls = << >>
    /\ lab = NoComponent
    /\ live = NoComponent

SpecFair ==
    /\ FairInit
    /\ [][Next]_vars
    /\ WF_vars(Sample)
    /\ WF_vars(FinishInit \/ AssignPass \/ UpdatePass \/ Return)

HistoryInit ==
    /\ data \in HistoryPointLists
    /\ k \in KValues
    /\ maxIterations \in MaxIterationsValues
    /\ pc = "sampling"
    /\ centroids = << >>
    /\ usedIndices = {}
    /\ assignments = << >>
    /\ changed = FALSE
    /\ iter = 0
    /\ nAssign = 0
    /\ nUpdate = 0
    /\ prevAssign = << >>
    /\ measured = << >>
    /\ history = << >>
    /\ calls = << >>
    /\ lab = NoComponent
    /\ live = NoComponent

\* { assignments: [...assignments], centroids: JSON.parse(JSON.stringify(centroids)) }
Snapshot(as, cs) == [assignments |-> as, centroids |-> cs]

\* one turn of the sampling loop with the drawn index idx
HSample ==
    /\ pc = "sampling"
    /\ SamplingGuard
    /\ \E idx \in 0..(N - 1) :
          IF idx \notin usedIndices
            THEN /\ centroids' = Append(centroids, CentroidOf(data[idx + 1]))
                 /\ usedIndices' = usedIndices \cup {idx}
            ELSE UNCHANGED <<centroids, usedIndices>>
    /\ UNCHANGED <<data, k, maxIterations, pc, assignments, changed, iter,
                   nAssign, nUpdate, prevAssign, measured, history, calls,
                   lab, live>>

\* variant: history starts empty, the initial state is not recorded
HFinishInit_NoInitialPush ==
    /\ pc = "sampling"
    /\ ~SamplingGuard
    /\ assignments' = [i \in 1..N |-> 0]
    /\ changed' = TRUE
    /\ iter' = 0
    /\ pc' = "loop"
    /\ UNCHANGED <<data, k, maxIterations, centroids, usedIndices,
                   nAssign, nUpdate, prevAssign, measured, history, calls,
                   lab, live>>

\* the sampling loop ends; the all-zero vector and the sample are pushed
HFinishInit ==
    /\ pc = "sampling"
    /\ ~SamplingGuard
    /\ assignments' = [i \in 1..N |-> 0]
    /\ history' = Append(history, Snapshot([i \in 1..N |-> 0], centroids))
    /\ changed' = TRUE
    /\ iter' = 0
    /\ pc' = "loop"
    /\ UNCHANGED <<data, k, maxIterations, centroids, usedIndices,
                   nAssign, nUpdate, prevAssign, measured, calls, lab, live>>

\* variant: snapshots pushed as { assignments, ... } without the [...] copy, so
\* every stored snapshot shows the vector the pass writes in place
HAssignPass_AliasedSnapshots ==
    /\ pc = "loop"
    /\ LoopGuard
    /\ LET best == [i \in 1..N |-> BestCluster(data[i], centroids)]
       IN  /\ assignments' = best
           /\ changed' = (\E i \in 1..N : assignments[i] # best[i])
           /\ history' = [i \in 1..Len(history) |->
                             [history[i] EXCEPT !.assignments = best]]
    /\ prevAssign' = assignments
    /\ measured' = centroids
    /\ nAssign' = nAssign + 1
    /\ pc' = "update"
    /\ UNCHANGED <<data, k, maxIterations, centroids, usedIndices, iter, nUpdate,
                   calls, lab, live>>

HAssignPass ==
    /\ pc = "loop"
    /\ LoopGuard
    /\ LET best == [i \in 1..N |-> BestCluster(data[i], centroids)]
       IN  /\ assignments' = best
           /\ changed' = (\E i \in 1..N : assignments[i] # best[i])
    /\ prevAssign' = assignments
    /\ measured' = centroids
    /\ nAssign' = nAssign + 1
    /\ pc' = "update"
    /\ UNCHANGED <<data, k, maxIterations, centroids, usedIndices, iter, nUpdate,
                   history, calls, lab, live>>

\* the clusters that received no row in this update pass
EmptyClusters(as) == {j \in 0..(NewLength - 1) : CountOf(j, as) = 0}

\* variant: the sums kept without the division by count
HNewCentroid_NoDivide(j, as, ix, iy) ==
    IF CountOf(j, as) > 0
      THEN Rat(SumOf(1, j, as, Len(as)), SumOf(2, j, as, Len(as)), 1)
      ELSE [x |-> data[ix + 1][1], y |-> data[iy + 1][2], d |-> 1]

\* c.count > 0 ? mean : { x: data[random row ix].features[xCol],
\*                        y: data[random row iy].features[yCol] }
HNewCentroid(j, as, ix, iy) ==
    IF CountOf(j, as) > 0
      THEN Rat(SumOf(1, j, as, Len(as)), SumOf(2, j, as, Len(as)), CountOf(j, as))
      ELSE [x |-> data[ix + 1][1], y |-> data[iy + 1][2], d |-> 1]

\* the accumulation indexes past newCentroids, or an empty cluster reads
\* data[0].features of an empty data array
HUpdateThrows == UpdateThrows \/ (N = 0 /\ EmptyClusters(assignments) # {})

HUpdatePass ==
    /\ pc = "update"
    /\ IF HUpdateThrows
         THEN /\ pc' = "thrown"
              /\ UNCHANGED <<centroids, iter, nUpdate, history>>
         ELSE /\ \E rx, ry \in [EmptyClusters(assignments) -> 0..(N - 1)] :
                    centroids' = [j \in 1..NewLength |->
                        HNewCentroid(j - 1, assignments,
                            IF j - 1 \in DOMAIN rx THEN rx[j - 1] ELSE 0,
                            IF j - 1 \in DOMAIN ry THEN ry[j - 1] ELSE 0)]
              /\ history' = Append(history, Snapshot(assignments, centroids'))
              /\ iter' = iter + 1
              /\ nUpdate' = nUpdate + 1
              /\ pc' = "loop"
    /\ UNCHANGED <<data, k, maxIterations, usedIndices, assignments, changed,
                   nAssign, prevAssign, measured, calls, lab, live>>

\* return history
HReturn ==
    /\ pc = "loop"
    /\ ~LoopGuard
    /\ pc' = "done"
    /\ UNCHANGED <<data, k, maxIterations, centroids, usedIndices, assignments,
                   changed, iter, nAssign, nUpdate, prevAssign, measured,
                   history, calls, lab, live>>

HistoryNext == HSample \/ HFinishInit \/ HAssignPass \/ HUpdatePass \/ HReturn

SpecHistory == HistoryInit /\ [][HistoryNext]_vars

\* -------------------------------------------- two calls of runKMeans at once
(***************************************************************************)
(* Two invocations of runKMeans over the same rows, their steps            *)
(* interleaved.  Every let/const of the function body is local to the      *)
(* call, so each call has its own record in calls; data, k and             *)
(* maxIterations are the arguments both calls were given.  draws is the    *)
(* sequence of row indices the call's sampling loop accepted.              *)
(***************************************************************************)
MaxPairN == 1
MaxPairK == 2

Callers == {1, 2}

PairPointLists ==
    {pl \in PointLists : Len(pl) <= MaxPairN} \cup {ScenarioPoints, SlowPoints}

\* the locals of a call on entry
FreshCall ==
    [pc |-> "sampling", centroids |-> << >>, usedIndices |-> {}, draws |-> << >>,
     assignments |-> << >>, changed |-> FALSE, iter |-> 0]

PairInit ==
    /\ data \in PairPointLists
    /\ k \in 0..MaxPairK
    /\ maxIterations \in {MaxIter, DefaultMaxIterations}
    /\ calls = [c \in Callers |-> FreshCall]
    /\ lab = NoComponent
    /\ live = NoComponent
    /\ pc = "sampling"
    /\ centroids = << >>
    /\ usedIndices = {}
    /\ assignments = << >>
    /\ changed = FALSE
    /\ iter = 0
    /\ nAssign = 0
    /\ nUpdate = 0
    /\ prevAssign = << >>
    /\ measured = << >>
    /\ history = << >>

PairFrame ==
    UNCHANGED <<data, k, maxIterations, pc, centroids, usedIndices, assignments,
                changed, iter, nAssign, nUpdate, prevAssign, measured, history,
                lab, live>>

\* while (centroids.length < k && centroids.length < data.length), in call c
PSamplingGuard(c) == Len(calls[c].centroids) < k /\ Len(calls[c].centroids) < N

PSample(c) ==
    /\ calls[c].pc = "sampling"
    /\ PSamplingGuard(c)
    /\ \E idx \in 0..(N - 1) :
          IF idx \notin calls[c].usedIndices
            THEN calls' = [calls EXCEPT
                     ![c].centroids = Append(@, CentroidOf(data[idx + 1])),
                     ![c].usedIndices = @ \cup {idx},
                     ![c].draws = Append(@, idx)]
            ELSE UNCHANGED calls
    /\ PairFrame

PFinishInit(c) ==
    /\ calls[c].pc = "sampling"
    /\ ~PSamplingGuard(c)
    /\ calls' = [calls EXCEPT ![c].assignments = [i \in 1..N |-> 0],
                              ![c].changed = TRUE,
                              ![c].iter = 0,
                              ![c].pc = "loop"]
    /\ PairFrame

PLoopGuard(c) == calls[c].iter < maxIterations /\ calls[c].changed

\* variant: the assignment vector is one array shared by both calls
PAssignPass_SharedAssignments(c) ==
    /\ calls[c].pc = "loop"
    /\ PLoopGuard(c)
    /\ LET best == [i \in 1..N |-> BestCluster(data[i], calls[c].centroids)]
       IN  calls' = [d \in Callers |->
                IF d = c
                  THEN [calls[c] EXCEPT
                          !.assignments = best,
                          !.changed = (\E i \in 1..N : calls[c].assignments[i] # best[i]),
                          !.pc = "update"]
                  ELSE IF calls[d].pc = "sampling" THEN calls[d]
                  ELSE [calls[d] EXCEPT !.assignments = best]]
    /\ PairFrame

PAssignPass(c) ==
    /\ calls[c].pc = "loop"
    /\ PLoopGuard(c)
    /\ LET best == [i \in 1..N |-> BestCluster(data[i], calls[c].centroids)]
       IN  calls' = [calls EXCEPT
               ![c].assignments = best,
               ![c].changed = (\E i \in 1..N : calls[c].assignments[i] # best[i]),
               ![c].pc = "update"]
    /\ PairFrame

PUpdateThrows(c) == \E i \in 1..N : calls[c].assignments[i] >= NewLength

\* variant: the centroid list is one variable shared by both calls
PUpdatePass_SharedCentroids(c) ==
    /\ calls[c].pc = "update"
    /\ IF PUpdateThrows(c)
         THEN calls' = [calls EXCEPT ![c].pc = "thrown"]
         ELSE LET cs == [j \in 1..NewLength |-> NewCentroid(j - 1, calls[c].assignments)]
              IN  calls' = [d \in Callers |->
                      IF d = c
                        THEN [calls[c] EXCEPT !.centroids = cs, !.iter = @ + 1, !.pc = "loop"]
                        ELSE IF calls[d].pc = "sampling" THEN calls[d]
                        ELSE [calls[d] EXCEPT !.centroids = cs]]
    /\ PairFrame

PUpdatePass(c) ==
    /\ calls[c].pc = "update"
    /\ IF PUpdateThrows(c)
         THEN calls' = [calls EXCEPT ![c].pc = "thrown"]
         ELSE calls' = [calls EXCEPT
                  ![c].centroids =
                      [j \in 1..NewLength |-> NewCentroid(j - 1, calls[c].assignments)],
                  ![c].iter = @ + 1,
                  ![c].pc = "loop"]
    /\ PairFrame

PReturn(c) ==
    /\ calls[c].pc = "loop"
    /\ ~PLoopGuard(c)
    /\ calls' = [calls EXCEPT ![c].pc = "done"]
    /\ PairFrame

PairNext ==
    \E c \in Callers :
        PSample(c) \/ PFinishInit(c) \/ PAssignPass(c) \/ PUpdatePass(c) \/ PReturn(c)

SpecPair == PairInit /\ [][PairNext]_vars

\* ---------------------------------------------------------------- DataLab
(***************************************************************************)
(* The DataLab component of src/pages/UnsupervisedLearning.tsx.  lab holds *)
(* its useState cells; pending is the deferred callback that is waiting    *)
(* (FileReader.onload or a setTimeout body) together with what its closure *)
(* captured.  While isLoading is true the page renders only a spinner, so  *)
(* no handler can be invoked.  The body of handleRun's timeout calls       *)
(* runKMeans: data, k, maxIterations and the locals are the frame of that  *)
(* call, entered by RunTimeout and left by RunSucceeded or RunThrew; the   *)
(* frame keeps its last values until the next call.  A nullable cell is    *)
(* << >> for null and <<v>> for the value v.  A CSV cell is numeric in     *)
(* every row or text in every row.                                         *)
(***************************************************************************)
MaxLabN == 1

None == << >>

Some(v) == <<v>>

\* parseCSV: a cell that reads as a number becomes a number, else stays text
Num(v) == [type |-> "number", value |-> v]

Str == [type |-> "string", value |-> 0]

\* what parseCSV returns for a file with a text column and two numeric columns
TableOf(pl) ==
    [headers |-> <<"name", "x", "y">>,
     rows |-> [i \in 1..Len(pl) |->
                  [name |-> Str, x |-> Num(pl[i][1]), y |-> Num(pl[i][2])]]]

\* a file whose x column is text
TextTable ==
    [headers |-> <<"name", "x", "y">>,
     rows |-> [i \in 1..2 |-> [name |-> Str, x |-> Str, y |-> Num(i)]]]

\* a file with a single column
OneColumnTable ==
    [headers |-> <<"x">>, rows |-> [i \in 1..2 |-> [x |-> Num(i)]]]

\* the files a user may drop
UploadTables ==
    {TableOf(pl) : pl \in {q \in PointLists : Len(q) <= MaxLabN}}
        \cup {TableOf(SlowPoints), TextTable, OneColumnTable}

\* parseCSV(EXAMPLE_CSV_DATA), cut down to four rows and three columns
ExampleTable == TableOf(ScenarioPoints)

NoCallback == [kind |-> "none"]

\* the useState initial values
LabMounted ==
    [appState |-> "upload", error |-> None, isLoading |-> FALSE,
     isExampleData |-> FALSE, data |-> << >>, headers |-> << >>,
     config |-> None, kmeansResult |-> None,
     pending |-> NoCallback, running |-> FALSE]

LabInit ==
    /\ lab = LabMounted
    /\ live = NoComponent
    /\ data = << >>
    /\ k = 0
    /\ maxIterations = DefaultMaxIterations
    /\ pc = "idle"
    /\ centroids = << >>
    /\ usedIndices = {}
    /\ assignments = << >>
    /\ changed = FALSE
    /\ iter = 0
    /\ nAssign = 0
    /\ nUpdate = 0
    /\ prevAssign = << >>
    /\ measured = << >>
    /\ history = << >>
    /\ calls = << >>

\* a handler that touches no frame of runKMeans
LabFrame ==
    UNCHANGED <<data, k, maxIterations, pc, centroids, usedIndices, assignments,
                changed, iter, nAssign, nUpdate, prevAssign, measured, history,
                calls, live>>

\* {appState === 'upload' && <UploadStep ...>} under !isLoading
UploadVisible == ~lab.isLoading /\ lab.appState = "upload"

\* {appState === 'configure' && <ConfigureStep ...>} under !isLoading
ConfigureVisible == ~lab.isLoading /\ lab.appState = "configure"

\* {appState === 'result' && config && kmeansResult && <ResultStep ...>}
ResultVisible ==
    /\ ~lab.isLoading /\ lab.appState = "result"
    /\ lab.config # None /\ lab.kmeansResult # None

\* UploadStep.handleFile: file.type !== 'text/csv' reports through onError
RejectFileType ==
    /\ UploadVisible
    /\ lab' = [lab EXCEPT !.error = Some("Invalid file type.")]
    /\ LabFrame

\* handleFile up to reader.readAsText(file); t is what parseCSV will make of it
HandleFile ==
    /\ UploadVisible
    /\ \E t \in UploadTables :
          lab' = [lab EXCEPT !.isLoading = TRUE, !.isExampleData = FALSE,
                             !.error = None,
                             !.pending = [kind |-> "file", table |-> t]]
    /\ LabFrame

\* reader.onload
FileOnLoad ==
    /\ lab.pending.kind = "file"
    /\ LET t == lab.pending.table
       IN  lab' = IF Len(t.rows) < 2 \/ Len(t.headers) < 2
                    THEN [lab EXCEPT !.error = Some("CSV must have at least 2 columns and 2 rows of data."),
                                     !.appState = "upload",
                                     !.isLoading = FALSE, !.pending = NoCallback]
                    ELSE [lab EXCEPT !.data = t.rows, !.headers = t.headers,
                                     !.appState = "configure",
                                     !.isLoading = FALSE, !.pending = NoCallback]
    /\ LabFrame

\* reader.onerror
FileOnError ==
    /\ lab.pending.kind = "file"
    /\ lab' = [lab EXCEPT !.error = Some("Error reading the file."),
                          !.isLoading = FALSE, !.pending = NoCallback]
    /\ LabFrame

\* handleLoadExampleData up to setTimeout
HandleLoadExampleData ==
    /\ UploadVisible
    /\ lab' = [lab EXCEPT !.isLoading = TRUE, !.isExampleData = TRUE,
                          !.error = None, !.pending = [kind |-> "example"]]
    /\ LabFrame

\* the body of handleLoadExampleData's timeout
ExampleTimeout ==
    /\ lab.pending.kind = "example"
    /\ lab' = [lab EXCEPT !.data = ExampleTable.rows,
                          !.headers = ExampleTable.headers,
                          !.appState = "configure",
                          !.isLoading = FALSE, !.pending = NoCallback]
    /\ LabFrame

\* ConfigureStep: headers.filter(h => typeof data[0]?.[h] === 'number')
NumericHeaders ==
    IF lab.data = << >> THEN << >>
    ELSE SelectSeq(lab.headers, LAMBDA h : lab.data[1][h].type = "number")

\* what the form can submit: k as typed (min and max of the input are hints;
\* an empty field parses to NaN, which the loops treat like k <= 0), xCol and
\* yCol options of the two selects; the button is disabled if one is ''
Configs ==
    {[k |-> kk, xCol |-> xc, yCol |-> yc] :
        kk \in KValues,
        xc \in {NumericHeaders[i] : i \in 1..Len(NumericHeaders)},
        yc \in {NumericHeaders[i] : i \in 1..Len(NumericHeaders)}}

\* the (x, y) pairs runKMeans reads from rows through xCol and yCol
Points(rows, cfg) ==
    [i \in 1..Len(rows) |-> <<rows[i][cfg.xCol].value, rows[i][cfg.yCol].value>>]

\* variant: handleRun without setConfig(newConfig)
HandleRun_NoSetConfig ==
    /\ ConfigureVisible
    /\ \E cfg \in Configs :
          lab' = [lab EXCEPT !.isLoading = TRUE, !.error = None,
                             !.pending = [kind |-> "run", data |-> lab.data,
                                          config |-> cfg]]
    /\ LabFrame

\* handleRun up to setTimeout; the closure keeps data of this render and newConfig
HandleRun ==
    /\ ConfigureVisible
    /\ \E cfg \in Configs :
          lab' = [lab EXCEPT !.isLoading = TRUE, !.error = None,
                             !.config = Some(cfg),
                             !.pending = [kind |-> "run", data |-> lab.data,
                                          config |-> cfg]]
    /\ LabFrame

\* variant: the catch block of handleFile pasted into handleRun
RunFailed_ToUpload(l, msg) ==
    [l EXCEPT !.error = Some(msg), !.appState = "upload",
              !.isLoading = FALSE, !.pending = NoCallback, !.running = FALSE]

\* catch (err) { setError(err.message); setAppState('configure') }
\* finally { setIsLoading(false) }
RunFailed(l, msg) ==
    [l EXCEPT !.error = Some(msg), !.appState = "configure",
              !.isLoading = FALSE, !.pending = NoCallback, !.running = FALSE]

\* typeof data[0][xCol] !== 'number' || typeof data[0][yCol] !== 'number'
ValidationFails ==
    LET row == lab.pending.data[1]
        cfg == lab.pending.config
    IN  row[cfg.xCol].type # "number" \/ row[cfg.yCol].type # "number"

\* the body of handleRun's timeout up to the call runKMeans(data, k, xCol, yCol)
RunTimeout ==
    /\ lab.pending.kind = "run"
    /\ ~lab.running
    /\ IF ValidationFails
         THEN /\ lab' = RunFailed(lab, "Columns must contain numeric data.")
              /\ LabFrame
         ELSE /\ lab' = [lab EXCEPT !.running = TRUE]
              /\ data' = Points(lab.pending.data, lab.pending.config)
              /\ k' = lab.pending.config.k
              /\ maxIterations' = DefaultMaxIterations
              /\ pc' = "sampling"
              /\ centroids' = << >>
              /\ usedIndices' = {}
              /\ assignments' = << >>
              /\ changed' = FALSE
              /\ iter' = 0
              /\ nAssign' = 0
              /\ nUpdate' = 0
              /\ prevAssign' = << >>
              /\ measured' = << >>
              /\ UNCHANGED <<history, calls, live>>

\* runKMeans returned: setKmeansResult(result); setAppState('result'); finally
RunSucceeded ==
    /\ lab.running
    /\ pc = "done"
    /\ lab' = [lab EXCEPT
                 !.kmeansResult = Some([assignments |-> assignments,
                                        centroids |-> centroids]),
                 !.appState = "result",
                 !.isLoading = FALSE, !.pending = NoCallback, !.running = FALSE]
    /\ LabFrame

\* runKMeans threw: the catch block receives the TypeError
RunThrew ==
    /\ lab.running
    /\ pc = "thrown"
    /\ lab' = RunFailed(lab, "Cannot read properties of undefined")
    /\ LabFrame

\* handleReset, from "Start Over" of ConfigureStep or ResultStep's button
HandleReset ==
    /\ ConfigureVisible \/ ResultVisible
    /\ lab' = [lab EXCEPT !.appState = "upload", !.data = << >>,
                          !.headers = << >>, !.config = None,
                          !.kmeansResult = None, !.error = None,
                          !.isExampleData = FALSE]
    /\ LabFrame

LabNext ==
    \/ RejectFileType \/ HandleFile \/ FileOnLoad \/ FileOnError
    \/ HandleLoadExampleData \/ ExampleTimeout
    \/ HandleRun \/ RunTimeout
    \/ Sample \/ FinishInit \/ AssignPass \/ UpdatePass \/ Return
    \/ RunSucceeded \/ RunThrew
    \/ HandleReset

SpecDataLab == LabInit /\ [][LabNext]_vars

\* ------------------------------------------------------ LiveKMeansExample
(***************************************************************************)
(* The LiveKMeansExample component of                                      *)
(* src/components/playground/GalaxyZooExample.tsx: its useState cells that *)
(* bear on clustering (explanation and highlightedSection are display      *)
(* only).  Both run handlers defer one call of runKMeansWithHistory; the   *)
(* frame of that call is entered by LiveTimeout and left by LiveRunDone or *)
(* LiveStepwiseDone.  generateData makes 150 random points; here it makes  *)
(* one of a few short lists.                                               *)
(***************************************************************************)
MaxLiveN == 1
MaxLiveK == 3
SliderMin == 2

LivePointLists ==
    {pl \in PointLists : 1 <= Len(pl) /\ Len(pl) <= MaxLiveN}
        \cup {ScenarioPoints, SlowPoints}

\* the useState initial values; generated is false until the mount effect ran
LiveMounted ==
    [generated |-> FALSE, data |-> << >>, k |-> 3, result |-> None,
     isLoading |-> FALSE, isStepping |-> FALSE, iterationHistory |-> << >>,
     currentIteration |-> 0, pending |-> NoCallback, running |-> FALSE]

LiveInit ==
    /\ live = LiveMounted
    /\ lab = NoComponent
    /\ data = << >>
    /\ k = 0
    /\ maxIterations = DefaultMaxIterations
    /\ pc = "idle"
    /\ centroids = << >>
    /\ usedIndices = {}
    /\ assignments = << >>
    /\ changed = FALSE
    /\ iter = 0
    /\ nAssign = 0
    /\ nUpdate = 0
    /\ prevAssign = << >>
    /\ measured = << >>
    /\ history = << >>
    /\ calls = << >>

\* a handler that touches no frame of runKMeansWithHistory
LiveFrame ==
    UNCHANGED <<data, k, maxIterations, pc, centroids, usedIndices, assignments,
                changed, iter, nAssign, nUpdate, prevAssign, measured, history,
                calls, lab>>

\* useEffect(() => { setData(generateData()) }, [])
GenerateData ==
    /\ ~live.generated
    /\ \E pl \in LivePointLists :
          live' = [live EXCEPT !.generated = TRUE, !.data = pl]
    /\ LiveFrame

\* the K slider: min 2, max 5, disabled={isStepping || isLoading}
SetK ==
    /\ live.generated /\ ~live.isStepping /\ ~live.isLoading
    /\ \E v \in SliderMin..MaxLiveK : live' = [live EXCEPT !.k = v]
    /\ LiveFrame

\* the Run and Run Step-by-Step buttons: shown when not stepping,
\* disabled={isLoading}
RunButtonsEnabled == live.generated /\ ~live.isStepping /\ ~live.isLoading

\* handleRun up to setTimeout; the closure keeps data and k of this render
LiveHandleRun ==
    /\ RunButtonsEnabled
    /\ live' = [live EXCEPT !.isLoading = TRUE,
                            !.pending = [kind |-> "run", data |-> live.data,
                                         k |-> live.k]]
    /\ LiveFrame

\* handleRunStepwise up to setTimeout
LiveHandleRunStepwise ==
    /\ RunButtonsEnabled
    /\ live' = [live EXCEPT !.isLoading = TRUE,
                            !.pending = [kind |-> "stepwise", data |-> live.data,
                                         k |-> live.k]]
    /\ LiveFrame

\* a timeout body enters runKMeansWithHistory(data, k, 'color', 'concentration')
LiveTimeout ==
    /\ live.pending.kind \in {"run", "stepwise"}
    /\ ~live.running
    /\ live' = [live EXCEPT !.running = TRUE]
    /\ data' = live.pending.data
    /\ k' = live.pending.k
    /\ maxIterations' = DefaultMaxIterations
    /\ pc' = "sampling"
    /\ centroids' = << >>
    /\ usedIndices' = {}
    /\ assignments' = << >>
    /\ changed' = FALSE
    /\ iter' = 0
    /\ nAssign' = 0
    /\ nUpdate' = 0
    /\ prevAssign' = << >>
    /\ measured' = << >>
    /\ history' = << >>
    /\ UNCHANGED <<calls, lab>>

\* the rest of handleRun's timeout body
LiveRunDone ==
    /\ live.running /\ live.pending.kind = "run"
    /\ pc = "done"
    /\ live' = [live EXCEPT !.result = Some(history[Len(history)]),
                            !.isStepping = FALSE, !.iterationHistory = << >>,
                            !.isLoading = FALSE,
                            !.pending = NoCallback, !.running = FALSE]
    /\ LiveFrame

\* the rest of handleRunStepwise's timeout body
LiveStepwiseDone ==
    /\ live.running /\ live.pending.kind = "stepwise"
    /\ pc = "done"
    /\ live' = [live EXCEPT !.iterationHistory = history,
                            !.currentIteration = 0, !.isStepping = TRUE,
                            !.result = None, !.isLoading = FALSE,
                            !.pending = NoCallback, !.running = FALSE]
    /\ LiveFrame

\* "Previous Step": setCurrentIteration(i => Math.max(0, i - 1)),
\* disabled={currentIteration === 0}
PreviousStep ==
    /\ live.isStepping
    /\ live.currentIteration # 0
    /\ live' = [live EXCEPT !.currentIteration =
                                IF @ - 1 > 0 THEN @ - 1 ELSE 0]
    /\ LiveFrame

\* variant: the button never disabled and the step written i => i + 1
NextStep_NoClamp ==
    /\ live.isStepping
    /\ live' = [live EXCEPT !.currentIteration = @ + 1]
    /\ LiveFrame

\* "Next Step": setCurrentIteration(i => Math.min(iterationHistory.length - 1, i + 1)),
\* disabled={currentIteration === iterationHistory.length - 1}
NextStep ==
    /\ live.isStepping
    /\ live.currentIteration # Len(live.iterationHistory) - 1
    /\ live' = [live EXCEPT !.currentIteration =
                                Min(Len(live.iterationHistory) - 1, @ + 1)]
    /\ LiveFrame

\* handleReset: "Reset & Exit" while stepping, else Reset with
\* disabled={isLoading || (!result && !isStepping)}
LiveHandleReset ==
    /\ live.generated
    /\ live.isStepping \/ (~live.isLoading /\ live.result # None)
    /\ live' = [live EXCEPT !.result = None, !.isStepping = FALSE,
                            !.iterationHistory = << >>,
                            !.currentIteration = 0]
    /\ LiveFrame

LiveNext ==
    \/ GenerateData \/ SetK
    \/ LiveHandleRun \/ LiveHandleRunStepwise \/ LiveTimeout
    \/ HSample \/ HFinishInit \/ HAssignPass \/ HUpdatePass \/ HReturn
    \/ LiveRunDone \/ LiveStepwiseDone
    \/ PreviousStep \/ NextStep \/ LiveHandleReset

SpecLive == LiveInit /\ [][LiveNext]_vars


\* ------------------------------------------------------- shared vocabulary
ValidInput == N >= 1 /\ k >= 1

DefaultRun == maxIterations = DefaultMaxIterations

Returned == pc = "done"

\* the run returned and its last assignment pass moved no point
Converged == Returned /\ nAssign >= 1 /\ assignments = prevAssign

ClusterIndices == 0..(Len(centroids) - 1)

\* C1: for valid input, whenever the assignment vector exists every entry a
\* satisfies 0 <= a < min(k, len(points)) and indexes the current centroid list
C1_AssignmentValid ==
    ValidInput =>
        \A i \in 1..Len(assignments) :
            /\ 0 <= assignments[i]
            /\ assignments[i] < Min(k, N)
            /\ assignments[i] < Len(centroids)

\* a returned run with more clusters requested than points, two iterations done
C1_Witness ==
    /\ Returned /\ ValidInput /\ k > N /\ nUpdate >= 2
    /\ \E i \in 1..N : assignments[i] >= 1

\* C2: for valid input and the default cap the returned centroid list has
\* exactly min(k, len(points)) entries
C2_ReturnedEffectiveK ==
    (Returned /\ ValidInput /\ DefaultRun) => Len(centroids) = Min(k, N)

\* squared Euclidean distance from p to c, scaled by (c.d * m)^2
SqEuclid(p, c, m) ==
    LET dx == (p[1] * c.d - c.x) * m
        dy == (p[2] * c.d - c.y) * m
    IN  dx * dx + dy * dy

\* c1 is strictly nearer to p than c2 in Euclidean distance
Nearer(p, c1, c2) == SqEuclid(p, c1, c2.d) < SqEuclid(p, c2, c1.d)

\* C3: after convergence no centroid that still owns a point is strictly nearer
\* to a point than the centroid the point is assigned to
C3_NearestAfterConvergence ==
    Converged =>
        \A i \in 1..N : \A j \in ClusterIndices :
            CountOf(j, assignments) > 0 =>
                ~Nearer(data[i], centroids[j + 1], centroids[assignments[i] + 1])

\* convergence in a later iteration with at least two clusters in use
C3_Witness ==
    /\ Converged /\ nUpdate >= 2 /\ N >= 3
    /\ \E i, j \in 1..N : assignments[i] # assignments[j]

\* C4: at the loop head another iteration starts exactly when fewer than
\* maxIterations iterations have run and the previous assignment pass (if any)
\* moved a point; otherwise the run returns
C4_IterateIff ==
    [][pc = "loop" =>
         /\ (pc' = "update") <=>
               (nUpdate < maxIterations /\ (nUpdate = 0 \/ assignments # prevAssign))
         /\ (pc' = "done") =>
               (nUpdate = maxIterations \/ (nUpdate >= 1 /\ assignments = prevAssign))]_vars

\* a run that stopped on convergence before the cap, after more than one iteration
C4_Witness ==
    Returned /\ nUpdate >= 2 /\ nUpdate < maxIterations /\ assignments = prevAssign

\* C5: the number of update passes never exceeds maxIterations
C5_UpdateBound == nUpdate <= maxIterations

\* a run cut off by the cap while points were still moving
C5_Witness ==
    Returned /\ maxIterations >= 1 /\ nUpdate = maxIterations /\ assignments # prevAssign

\* C6 --------------------------------------------------------------------
ScenarioRun == data = ScenarioPoints /\ k = 2 /\ DefaultRun

CentroidSet == {centroids[j] : j \in 1..Len(centroids)}

\* centroids (0, 0.5) and (10, 0.5), the x = 0 pair apart from the x = 10 pair
SplitByX ==
    /\ Len(centroids) = 2
    /\ CentroidSet = {[x |-> 0, y |-> 1, d |-> 2], [x |-> 20, y |-> 1, d |-> 2]}
    /\ assignments[1] = assignments[2]
    /\ assignments[3] = assignments[4]
    /\ assignments[1] # assignments[3]

\* centroids (5, 0) and (5, 1), the y = 0 pair apart from the y = 1 pair
SplitByY ==
    /\ Len(centroids) = 2
    /\ CentroidSet = {[x |-> 5, y |-> 0, d |-> 1], [x |-> 5, y |-> 1, d |-> 1]}
    /\ assignments[1] = assignments[3]
    /\ assignments[2] = assignments[4]
    /\ assignments[1] # assignments[2]

\* the two sampled rows lie on different sides (one with x = 0, one with x = 10)
MixedSample == usedIndices \cap {0, 1} # {} /\ usedIndices \cap {2, 3} # {}

\* C6 (as claimed): on the four-point scenario every initial sample ends in
\* the centroids (0, 0.5) and (10, 0.5) with the two pairs split
C6_EverySample == (Returned /\ ScenarioRun) => SplitByX

\* C6 (amended): a sample with one row from each side ends in the split by x;
\* a sample with both rows from the same side ends in (5, 0) and (5, 1)
C6_MixedSample ==
    (Returned /\ ScenarioRun) =>
        IF MixedSample THEN SplitByX ELSE SplitByY

C6_Witness == Returned /\ ScenarioRun /\ MixedSample /\ SplitByX

\* C7 --------------------------------------------------------------------
RECURSIVE TotalOf(_, _)
TotalOf(f, i) == IF i = 0 THEN 0 ELSE TotalOf(f, i - 1) + data[i][f]

\* C7: with k = 1 and the default cap the result is one centroid, the mean of
\* all points, every point in cluster 0; a single point is its own centroid
C7_SingleCluster ==
    (Returned /\ k = 1 /\ N >= 1 /\ DefaultRun) =>
        /\ Len(centroids) = 1
        /\ centroids[1].x * N = TotalOf(1, N) * centroids[1].d
        /\ centroids[1].y * N = TotalOf(2, N) * centroids[1].d
        /\ \A i \in 1..N : assignments[i] = 0
        /\ (N = 1 => centroids[1] = CentroidOf(data[1]))

\* k = 1 over several points whose mean is not a grid point
C7_Witness ==
    Returned /\ k = 1 /\ N >= 2 /\ DefaultRun /\ centroids[1].d > 1

\* C8: after convergence one more assignment pass against the returned
\* centroids reproduces the returned assignment vector
C8_ReassignIdempotent ==
    Converged => \A i \in 1..N : BestCluster(data[i], centroids) = assignments[i]

\* C9: with no points (k >= 1, default cap) nothing is thrown and the result is
\* an empty assignment vector with an empty centroid list
C9_EmptyInput ==
    (N = 0 /\ k >= 1 /\ DefaultRun) =>
        /\ pc # "thrown"
        /\ Returned => (assignments = << >> /\ centroids = << >>)

\* C10: a call with k <= 0 never returns a result
C10_RejectsNonPositiveK == k <= 0 => ~Returned

\* C11 -------------------------------------------------------------------
InitFinished == pc = "loop" /\ nAssign = 0

AfterUpdate == pc = "loop" /\ nUpdate >= 1

\* C11: from the end of initialization to the return the centroid list has
\* exactly k entries
C11_AlwaysK == (ValidInput /\ pc # "sampling") => Len(centroids) = k

\* C12: once the assignment vector exists it has exactly one entry per point
C12_OnePerPoint ==
    pc # "sampling" => (Len(assignments) = N /\ DOMAIN assignments = DOMAIN data)

C12_Witness == Returned /\ N >= 2 /\ nUpdate >= 2

\* C13: no step of the run changes the rows passed in
C13_InputUntouched == [][data' = data]_vars

C13_Witness == Returned /\ N >= 2 /\ nUpdate >= 2 /\ Len(centroids) >= 2

\* C16: when initialization finishes the centroid list holds min(k, len(points))
\* entries, each the feature pair of a sampled row, no row sampled twice
C16_InitialSample ==
    (InitFinished /\ k >= 0) =>
        /\ Len(centroids) = Min(k, N)
        /\ Cardinality(usedIndices) = Len(centroids)
        /\ \E f \in [1..Len(centroids) -> usedIndices] :
              /\ \A a, b \in 1..Len(centroids) : a # b => f[a] # f[b]
              /\ \A j \in 1..Len(centroids) : centroids[j] = CentroidOf(data[f[j] + 1])

\* initialization finished with several centroids over rows that repeat a point
C16_Witness ==
    /\ InitFinished /\ Len(centroids) >= 2
    /\ \E a, b \in 1..N : a # b /\ data[a] = data[b]

\* C17: right after an assignment pass every point sits with the lowest-index
\* centroid among those nearest to it in the list the pass measured against
C17_LowestNearest ==
    (pc = "update" /\ measured # << >>) =>
        \A i \in 1..N :
            LET a == assignments[i]
            IN  /\ a \in 0..(Len(measured) - 1)
                /\ \A j \in 0..(Len(measured) - 1) :
                      /\ ~Nearer(data[i], measured[j + 1], measured[a + 1])
                      /\ j < a => Nearer(data[i], measured[a + 1], measured[j + 1])

\* a later pass in which some point had two nearest centroids at equal distance
C17_Witness ==
    /\ pc = "update" /\ nAssign >= 2
    /\ \E i \in 1..N : \E j \in 0..(Len(measured) - 1) :
          /\ j > assignments[i]
          /\ ~Nearer(data[i], measured[assignments[i] + 1], measured[j + 1])

\* C18 -------------------------------------------------------------------
Members(j) == {i \in 1..Len(assignments) : assignments[i] = j}

RECURSIVE SumOver(_, _)
SumOver(f, S) ==
    IF S = {} THEN 0
    ELSE LET i == CHOOSE m \in S : TRUE IN data[i][f] + SumOver(f, S \ {i})

\* C18: right after an update pass every centroid that owns points is the
\* arithmetic mean of exactly those points
C18_MeanOfMembers ==
    AfterUpdate =>
        \A j \in ClusterIndices :
            Members(j) # {} =>
                /\ centroids[j + 1].d >= 1
                /\ centroids[j + 1].x * Cardinality(Members(j)) =
                       SumOver(1, Members(j)) * centroids[j + 1].d
                /\ centroids[j + 1].y * Cardinality(Members(j)) =
                       SumOver(2, Members(j)) * centroids[j + 1].d

\* an update that left two clusters in use, one of them with several points
C18_Witness ==
    /\ AfterUpdate
    /\ \E i, j \in ClusterIndices :
          i # j /\ Members(i) # {} /\ Cardinality(Members(j)) >= 2

\* C19: right after an update pass every centroid that owns no point is (0, 0)
C19_EmptyCollapses ==
    AfterUpdate =>
        \A j \in ClusterIndices : Members(j) = {} => centroids[j + 1] = Origin

\* an update with k <= len(points) that left a cluster empty
C19_Witness ==
    /\ AfterUpdate /\ ValidInput /\ k <= N
    /\ \E j \in ClusterIndices : Members(j) = {}
    /\ \E i \in 1..N : data[i] # <<0, 0>>

\* C20: in runKMeansWithHistory, right after an update pass every centroid
\* that owns no point is the feature pair of one row of the data
C20_ReseedIsDataPoint ==
    AfterUpdate =>
        \A j \in ClusterIndices :
            Members(j) = {} => \E i \in 1..N : centroids[j + 1] = CentroidOf(data[i])

\* C14, C15 --------------------------------------------------------------
\* what a call yields once it has ended
Outcome(c) ==
    [thrown |-> calls[c].pc = "thrown",
     assignments |-> calls[c].assignments,
     centroids |-> calls[c].centroids]

Ended(c) == calls[c].pc \in {"done", "thrown"}

\* the refinement loop run to its end from centroids cs, vector as, flag ch
RECURSIVE Refine(_, _, _, _)
Refine(cs, as, ch, it) ==
    IF ~(it < maxIterations /\ ch)
      THEN [thrown |-> FALSE, assignments |-> as, centroids |-> cs]
      ELSE LET best == [i \in 1..N |-> BestCluster(data[i], cs)]
           IN  IF \E i \in 1..N : best[i] >= NewLength
                 THEN [thrown |-> TRUE, assignments |-> best, centroids |-> cs]
                 ELSE Refine([j \in 1..NewLength |-> NewCentroid(j - 1, best)],
                             best, best # as, it + 1)

\* the outcome of one call running by itself after accepting the draws dr
AloneOutcome(dr) ==
    Refine([j \in 1..Len(dr) |-> CentroidOf(data[dr[j] + 1])],
           [i \in 1..N |-> 0], TRUE, 0)

\* C14: two calls with the same arguments and the same accepted draws end
\* with the same assignment vector and the same centroid list
C14_SameDrawsSameResult ==
    \A c, d \in DOMAIN calls :
        (Ended(c) /\ Ended(d) /\ calls[c].draws = calls[d].draws) =>
            Outcome(c) = Outcome(d)

\* both calls returned after the same two or more draws and some reassignment
C14_Witness ==
    /\ calls # << >>
    /\ calls[1].pc = "done" /\ calls[2].pc = "done"
    /\ calls[1].draws = calls[2].draws
    /\ Len(calls[1].draws) >= 2
    /\ calls[1].iter >= 2
    /\ \E i \in 1..N : calls[1].assignments[i] # 0

\* C15: however the steps of the two calls interleave, each call ends with
\* the outcome it has when it runs by itself
C15_InterleavingHarmless ==
    \A c \in DOMAIN calls : Ended(c) => Outcome(c) = AloneOutcome(calls[c].draws)

\* both calls returned, after different draws and with different results
C15_Witness ==
    /\ calls # << >>
    /\ calls[1].pc = "done" /\ calls[2].pc = "done"
    /\ calls[1].iter >= 2 /\ calls[2].iter >= 2
    /\ calls[1].draws # calls[2].draws
    /\ calls[1].assignments # calls[2].assignments

\* ------------------------------------------------------------ phase order
\* C21: a run is Initializing, then (Assigning, Updating) pairs, then terminal:
\* sampling is followed by sampling or the loop head; the loop head by an
\* assignment pass or the return; an assignment pass by its update pass and by
\* nothing else (the update pass completes, or for k <= 0 aborts with the
\* TypeError of C10, which is not a return); nothing follows a terminal state;
\* at the return the two pass counts are equal
C21_PhaseOrder ==
    [][/\ pc = "sampling" =>
             pc' \in {"sampling", "loop"} /\ nAssign' = 0 /\ nUpdate' = 0
       /\ pc = "loop" =>
             \/ pc' = "update" /\ nAssign' = nAssign + 1 /\ nUpdate' = nUpdate
             \/ pc' = "done" /\ nAssign' = nAssign /\ nUpdate' = nUpdate
                            /\ nAssign = nUpdate
       /\ pc = "update" =>
             \/ pc' = "loop" /\ nUpdate' = nUpdate + 1 /\ nAssign' = nAssign
                            /\ nUpdate' = nAssign'
             \/ pc' = "thrown" /\ k <= 0
       /\ pc \notin {"done", "thrown"}]_vars

\* a run that returned after two (Assigning, Updating) pairs, the last
\* assignment pass having moved no point
C21_Witness == Returned /\ nAssign = 2 /\ nUpdate = 2 /\ ~changed /\ N >= 2

\* C22: when the run stops because its last assignment pass changed no
\* assignment, the returned centroid list is the list that pass measured against
C22_FinalUpdateNoOp == Converged => centroids = measured

\* ------------------------------------------- within-cluster sum of squares
LCM(a, b) == (a * b) \div GCD(a, b)

\* least common multiple of the denominators of cs[1..j]
RECURSIVE CommonDenominator(_, _)
CommonDenominator(cs, j) ==
    IF j = 0 THEN 1 ELSE LCM(CommonDenominator(cs, j - 1), cs[j].d)

\* sum over rows 1..i of the squared distance from the row to the centroid it
\* is assigned to, scaled by m * m (m a multiple of every denominator in cs)
RECURSIVE Wcss(_, _, _, _)
Wcss(as, cs, m, i) ==
    IF i = 0 THEN 0
    ELSE Wcss(as, cs, m, i - 1)
           + SqEuclid(data[i], cs[as[i] + 1], m \div cs[as[i] + 1].d)

\* C26: for valid input, from the second update pass on, the within-cluster sum
\* of squares after an update pass is at most the sum after the previous one
\* (prevAssign and measured are the vector and the list the previous update
\* pass left behind)
C26_WcssNonIncreasing ==
    (ValidInput /\ pc \in {"loop", "done"} /\ nUpdate >= 2) =>
        LET m == LCM(CommonDenominator(centroids, Len(centroids)),
                     CommonDenominator(measured, Len(measured)))
        IN  Wcss(assignments, centroids, m, N) <= Wcss(prevAssign, measured, m, N)

\* an iteration that strictly lowered the sum
C26_Witness ==
    /\ ValidInput /\ pc = "loop" /\ nUpdate >= 2 /\ k >= 2
    /\ LET m == LCM(CommonDenominator(centroids, Len(centroids)),
                    CommonDenominator(measured, Len(measured)))
       IN  Wcss(assignments, centroids, m, N) < Wcss(prevAssign, measured, m, N)

\* ------------------------------------------------ history of snapshots
\* C23: once initialization is over, history holds the all-zero vector with
\* the sampled centroids first, then one snapshot per completed iteration, the
\* last one being the current vector and list after an update pass; a returned
\* history has between 1 and maxIterations + 1 snapshots
C23_HistoryShape ==
    pc \in {"loop", "update", "done"} =>
        /\ Len(history) = nUpdate + 1
        /\ history[1].assignments = [i \in 1..N |-> 0]
        /\ Len(history[1].centroids) = Cardinality(usedIndices)
        /\ \A j \in 1..Len(history[1].centroids) :
               \E idx \in usedIndices :
                   history[1].centroids[j] = CentroidOf(data[idx + 1])
        /\ nUpdate = 0 => history[1].centroids = centroids
        /\ pc # "update" =>
               history[Len(history)] = Snapshot(assignments, centroids)
        /\ Returned => (1 <= Len(history) /\ Len(history) <= maxIterations + 1)

\* a returned history of the initial snapshot and at least two iterations
C23_Witness ==
    /\ Returned /\ Len(history) >= 3 /\ Len(history) = nUpdate + 1
    /\ history[1].centroids # centroids

\* no update pass of the run met an empty cluster
NoEmptyCluster ==
    \A i \in 2..Len(history) :
        \A j \in 0..(NewLength - 1) : CountOf(j, history[i].assignments) > 0

\* C24: when no update pass met an empty cluster, the last snapshot of the
\* returned history is what runKMeans returns from the same points, k,
\* maxIterations and initial sample
C24_LastSnapshotIsResult ==
    (Returned /\ history # << >> /\ NoEmptyCluster) =>
        LET r == Refine(history[1].centroids, history[1].assignments, TRUE, 0)
        IN  /\ ~r.thrown
            /\ history[Len(history)] = Snapshot(r.assignments, r.centroids)

\* a returned run of two clusters, never empty, over more than one iteration
C24_Witness ==
    /\ Returned /\ history # << >> /\ NoEmptyCluster
    /\ k >= 2 /\ nUpdate >= 2
    /\ \E i \in 1..Len(centroids) : centroids[i].d > 1

\* C27: a stored snapshot never changes: every step keeps every snapshot
\* already in history as it is
C27_SnapshotsFrozen ==
    [][\A i \in 1..Len(history) :
          i <= Len(history') /\ history'[i] = history[i]]_vars

\* a returned history whose earlier snapshots differ from the final state
C27_Witness ==
    /\ Returned /\ Len(history) >= 3
    /\ history[1].assignments # assignments
    /\ history[2].assignments # assignments
    /\ history[2].centroids # centroids

\* ------------------------------------------------------------ termination
\* C25 as stated: every call, under fair draws, reaches its return
C25_AlwaysReturns == <>Returned

\* C25: every call, under fair draws, ends: it reaches its return, or, for
\* k <= 0 with at least one row and maxIterations >= 1, the update pass throws
C25_Terminates ==
    <>(Returned \/ (pc = "thrown" /\ k <= 0 /\ N >= 1 /\ maxIterations >= 1))

\* a returned run whose sampling loop was ended by the data.length cap
C25_Witness ==
    /\ Returned /\ k > N /\ N >= 2 /\ Cardinality(usedIndices) = N
    /\ nUpdate >= 1 /\ nUpdate < maxIterations

\* ---------------------------------------------------------------- DataLab
\* C28: when the deferred computation of handleRun throws (the column check
\* or runKMeans), the step that handles it stores an error message, sets
\* appState to 'configure' and isLoading to false, and leaves kmeansResult as
\* it was
C28_RunErrorHandled ==
    [][(/\ lab.pending.kind = "run"
        /\ lab' # lab
        /\ \/ ~lab.running /\ ValidationFails
           \/ lab.running /\ pc = "thrown")
          => /\ lab'.error # None
             /\ lab'.appState = "configure"
             /\ ~lab'.isLoading
             /\ lab'.kmeansResult = lab.kmeansResult]_vars

\* the page after a run whose runKMeans call threw
C28_Witness ==
    /\ pc = "thrown" /\ ~lab.running /\ lab.pending = NoCallback
    /\ lab.error # None /\ lab.appState = "configure" /\ ~lab.isLoading
    /\ lab.kmeansResult = None

\* the orders in which the sampling loop can have accepted the indices in S
Orderings(S) ==
    {dr \in [1..Cardinality(S) -> S] :
        \A i, j \in 1..Cardinality(S) : i # j => dr[i] # dr[j]}

\* C29: whenever appState is 'result', config and kmeansResult are set, the
\* last runKMeans call was made on the rows and the config now in state, and
\* kmeansResult is what runKMeans returns for them from the sample it drew
C29_ResultConsistent ==
    lab.appState = "result" =>
        /\ lab.config # None
        /\ lab.kmeansResult # None
        /\ Returned
        /\ data = Points(lab.data, lab.config[1])
        /\ k = lab.config[1].k
        /\ maxIterations = DefaultMaxIterations
        /\ \E dr \in Orderings(usedIndices) :
              LET r == AloneOutcome(dr)
              IN  /\ ~r.thrown
                  /\ lab.kmeansResult[1] =
                        [assignments |-> r.assignments, centroids |-> r.centroids]

\* a result on display for an uploaded file, computed in two or more iterations
C29_Witness ==
    /\ ResultVisible /\ ~lab.isExampleData
    /\ nUpdate >= 2 /\ lab.config[1].k >= 2
    /\ lab.config[1].xCol # lab.config[1].yCol
    /\ lab.kmeansResult[1].centroids = centroids

\* ------------------------------------------------------ LiveKMeansExample
\* C30: whenever isStepping is true, iterationHistory is not empty and
\* currentIteration indexes one of its snapshots
C30_StepInRange ==
    live.isStepping =>
        /\ live.iterationHistory # << >>
        /\ 0 <= live.currentIteration
        /\ live.currentIteration <= Len(live.iterationHistory) - 1

\* stepping through a history of three or more snapshots, at its last one
C30_Witness ==
    /\ live.isStepping
    /\ Len(live.iterationHistory) >= 3
    /\ live.currentIteration = Len(live.iterationHistory) - 1

=============================================================================
